---- MODULE Spec2Model ----
(***************************************************************************)
(* Diolex mock-interview backend: the narration controller                 *)
(* (app/agent/tts_service.py), the interview agent's transcript            *)
(* (app/agent/interview_agent.py) and the websocket coordinator            *)
(* (app/websockets/ws.py).                                                 *)
(*                                                                         *)
(* Three specifications share the module:                                  *)
(*   SpecTTS   - speak()/stop_audio() on the caller's thread interleaved   *)
(*               with the playback worker threads and the audio device;    *)
(*   Spec      - the coordinator loop of one connection driving the        *)
(*               shared InterviewAgent;                                    *)
(*   SpecStore - the transcript's read operations applied to bounded       *)
(*               transcripts.                                              *)
(***************************************************************************)
EXTENDS Naturals, Sequences, FiniteSets

(***************************************************************************)
(* Bounds of the model.                                                    *)
(***************************************************************************)
\* speak() calls of one run of SpecTTS; utterance u is the text of the u-th call
MaxUtter == 2
\* audio chunks the synthesizer yields for one utterance
NChunks == 2
\* longest transcript SpecStore starts from
MaxStoreLen == 2
\* largest n passed to get_last_n_messages in SpecStore
MaxN == 3

\* send_message_agent calls the coordinator makes in one run of Spec
MaxCalls == 2
\* send_message_agent calls of one run of SpecAgent
MaxAgentCalls == 4
\* send_message_agent calls before POST /end in one run of SpecFeedback
MaxFeedbackTurns == 1
\* POST /end requests of one run
MaxEndCalls == 1

\* send_message_agent: self.get_last_n_messages(5)
HistoryWindow == 5

\* feedback_system_prompt: "numerical scores (0-5) for each category"
MaxScore == 5

VARIABLES
    \* ---- tts_service.py module globals
    _pipeline,                  \* TRUE when initialize_tts() built the pipeline
    _current_playback_thread,   \* 0 for None, else the utterance of the thread
    _stop_event,                \* threading.Event, TRUE when set
    _is_playing,                \* the flag is_playing() returns
    \* ---- threads and device
    threads,                    \* utterance -> [pc, i, failed] of its worker
    device,                     \* 0: stream inactive; u: a chunk of u is playing
    caller,                     \* [pc, fn]: position of the thread calling speak/stop_audio
    nspeak,                     \* speak() calls that started a worker so far
    speak_result,               \* return value of the last speak(): "none", "true", "false"
    \* ---- observations of the device, for the properties
    delivered,                  \* utterance -> chunks handed to sd.play
    played_out,                 \* utterance -> chunks that played to their end
    \* ---- InterviewAgent (the process-wide instance of api/shared.py)
    history,                    \* self.history: sequence of turns
    user_code,                  \* self.user_code
    problem_description,        \* self.problem_description
    chat_session,               \* self.chat_session: "None", "open", or "ended" once the
                                \* model said the closing phrase of END in this session
    agent_calls,                \* send_message_agent calls so far
    model_calls,                \* chat_session.send_message calls so far
    payload,                    \* the full_message of the latest chat_session.send_message
    \* ---- websocket coordinator (ws.py), one connection
    active_connections,         \* manager.active_connections: registered client ids
    ws_pc,                      \* "closed", "recv", "speech_sleep", "chat_sleep"
    event,                      \* the message and code context of the event being handled
    last_code_context,          \* websocket_endpoint's local last_code_context
    sent,                       \* outbound messages pushed while handling the latest event
    narration,                  \* stop_audio()/speak() calls made while handling it
    \* ---- results of the transcript's read operations (SpecStore)
    last_n_arg,                 \* n of the latest get_last_n_messages call, NoArg after an append
    last_n_result,              \* what that call returned
    repeated,                   \* the latest call repeated the one before it
    formatted,                  \* what the latest get_formatted_history call returned
    \* ---- the same websocket_endpoint serving a second client
    peer_pc,                    \* "closed", "recv", "speech_sleep"
    peer_event,                 \* the message and code context of the event it handles
    peer_sent,                  \* outbound messages pushed to it for that event
    peer_narration,             \* stop_audio()/speak() calls made while handling it
    \* ---- FeedbackAgent (api/shared.py) and POST /end
    feedback_context,           \* what update_context stored, NoContext before
    feedback_response,          \* what the feedback model answered to the latest POST /end
    end_response,               \* the latest response of POST /end, NoResponse before
    end_calls,                  \* POST /end requests so far
    \* ---- a second connection that uses the first client's id
    registered_ws,              \* the websocket stored under the first client's id by
                                \* the latest connect: "w1" (its own), "w2", "none" before
    twin_pc,                    \* the second connection's loop: "closed", "recv"
    \* ---- QueuedTTS (agent/tts.py)
    speech_queue,               \* self.speech_queue
    is_processing,              \* self.is_processing
    workers,                    \* the threads of _process_queue: position and popped text
    queue_caller,               \* the thread calling speak(): "idle", "check" (line 108)
    queue_calls,                \* speak() calls so far
    passed,                     \* the texts given to speak(), in call order
    spoken,                     \* the texts the engine has begun to say, in that order
    cleared                     \* the texts clear_queue() removed

ttsVars == << _pipeline, _current_playback_thread, _stop_event, _is_playing,
              threads, device, caller, nspeak, speak_result,
              delivered, played_out >>

agentVars == << history, user_code, problem_description, chat_session,
                agent_calls, model_calls, payload >>

wsVars == << active_connections, ws_pc, event, last_code_context, sent, narration >>

storeVars == << last_n_arg, last_n_result, repeated, formatted >>

peerVars == << peer_pc, peer_event, peer_sent, peer_narration >>

feedbackVars == << feedback_context, feedback_response, end_response, end_calls >>

twinVars == << registered_ws, twin_pc >>

\* what the coordinator's handlers, the agent and the narration leave alone
queueVars == << speech_queue, is_processing, workers, queue_caller, queue_calls,
               passed, spoken, cleared >>

restVars == << peerVars, feedbackVars, twinVars, queueVars >>

vars == << ttsVars, agentVars, wsVars, storeVars, restVars >>

Utter == 1..MaxUtter

(***************************************************************************)
(* Narration controller: tts_service.py                                    *)
(***************************************************************************)
Alive(t) == threads[t].pc \notin {"unborn", "dead"}

AliveThreads == {t \in Utter : Alive(t)}

\* is_playing(): return _is_playing
is_playing == _is_playing

InitTTS ==
    /\ _pipeline \in BOOLEAN
    /\ _current_playback_thread = 0
    /\ _stop_event = FALSE
    /\ _is_playing = FALSE
    /\ threads = [t \in Utter |-> [pc |-> "unborn", i |-> 0, failed |-> FALSE]]
    /\ device = 0
    /\ caller = [pc |-> "idle", fn |-> "none"]
    /\ nspeak = 0
    /\ speak_result = "none"
    /\ delivered = [t \in Utter |-> 0]
    /\ played_out = [t \in Utter |-> 0]

\* ---- _play_audio_thread(text, voice), one action per interleaving point

\* _is_playing = True; return at once when the pipeline is missing
WorkerBegin(t) ==
    /\ threads[t].pc = "begin"
    /\ _is_playing' = TRUE
    /\ threads' = [threads EXCEPT ![t].pc = IF _pipeline THEN "next" ELSE "finally"]
    /\ UNCHANGED << _pipeline, _current_playback_thread, _stop_event, device, caller,
                    nspeak, speak_result, delivered, played_out >>

\* the for loop asks the generator for the next chunk: it yields one, or is exhausted
WorkerNextChunk(t) ==
    /\ threads[t].pc = "next"
    /\ threads' = [threads EXCEPT ![t].pc =
                        IF threads[t].i < NChunks THEN "check" ELSE "finally"]
    /\ UNCHANGED << _pipeline, _current_playback_thread, _stop_event, _is_playing, device,
                    caller, nspeak, speak_result, delivered, played_out >>

\* synthesis raises inside the generator: except logs, finally runs
WorkerSynthError(t) ==
    /\ threads[t].pc = "next"
    /\ threads[t].i < NChunks
    /\ threads' = [threads EXCEPT ![t].pc = "finally", ![t].failed = TRUE]
    /\ UNCHANGED << _pipeline, _current_playback_thread, _stop_event, _is_playing, device,
                    caller, nspeak, speak_result, delivered, played_out >>

\* if _stop_event.is_set(): break
WorkerCheckStop(t) ==
    /\ threads[t].pc = "check"
    /\ threads' = [threads EXCEPT ![t].pc = IF _stop_event THEN "finally" ELSE "play"]
    /\ UNCHANGED << _pipeline, _current_playback_thread, _stop_event, _is_playing, device,
                    caller, nspeak, speak_result, delivered, played_out >>

\* sd.play(audio, 24000): the chunk replaces whatever the stream was playing
WorkerPlay(t) ==
    /\ threads[t].pc = "play"
    /\ device' = t
    /\ delivered' = [delivered EXCEPT ![t] = @ + 1]
    /\ threads' = [threads EXCEPT ![t].pc = "wait"]
    /\ UNCHANGED << _pipeline, _current_playback_thread, _stop_event, _is_playing,
                    caller, nspeak, speak_result, played_out >>

\* sd.play raises: except logs, finally runs
WorkerDeviceError(t) ==
    /\ threads[t].pc = "play"
    /\ threads' = [threads EXCEPT ![t].pc = "finally", ![t].failed = TRUE]
    /\ UNCHANGED << _pipeline, _current_playback_thread, _stop_event, _is_playing, device,
                    caller, nspeak, speak_result, delivered, played_out >>

\* while sd.get_stream().active: if _stop_event.is_set(): sd.stop(); break
\* (time.sleep(0.01) while neither holds); either way the for loop goes on
WorkerWait(t) ==
    /\ threads[t].pc = "wait"
    /\ device = 0 \/ _stop_event
    /\ device' = 0
    /\ threads' = [threads EXCEPT ![t].pc = "next", ![t].i = @ + 1]
    /\ UNCHANGED << _pipeline, _current_playback_thread, _stop_event, _is_playing,
                    caller, nspeak, speak_result, delivered, played_out >>

\* a variant that forgets the finally clause when the worker failed
WorkerFinallyOnlyOnSuccess(t) ==
    /\ threads[t].pc = "finally"
    /\ _is_playing' = IF threads[t].failed THEN _is_playing ELSE FALSE
    /\ threads' = [threads EXCEPT ![t].pc = "dead"]
    /\ UNCHANGED << _pipeline, _current_playback_thread, _stop_event, device, caller,
                    nspeak, speak_result, delivered, played_out >>

\* finally: _is_playing = False, and the thread ends
WorkerFinally(t) ==
    /\ threads[t].pc = "finally"
    /\ _is_playing' = FALSE
    /\ threads' = [threads EXCEPT ![t].pc = "dead"]
    /\ UNCHANGED << _pipeline, _current_playback_thread, _stop_event, device, caller,
                    nspeak, speak_result, delivered, played_out >>

\* the audio device plays the current chunk to its end
ChunkFinishes ==
    /\ device # 0
    /\ played_out' = [played_out EXCEPT ![device] = @ + 1]
    /\ device' = 0
    /\ UNCHANGED << _pipeline, _current_playback_thread, _stop_event, _is_playing, threads,
                    caller, nspeak, speak_result, delivered >>

\* ---- speak(text) and stop_audio() on the calling thread

\* speak(): if not _pipeline: return False
SpeakNoPipeline ==
    /\ caller.pc = "idle"
    /\ ~_pipeline
    /\ speak_result' = "false"
    /\ UNCHANGED << _pipeline, _current_playback_thread, _stop_event, _is_playing, threads,
                    device, caller, nspeak, delivered, played_out >>

\* speak(): the pipeline exists, so stop_audio() is entered
SpeakCall ==
    /\ caller.pc = "idle"
    /\ _pipeline
    /\ nspeak < MaxUtter
    /\ caller' = [pc |-> "set", fn |-> "speak"]
    /\ UNCHANGED << _pipeline, _current_playback_thread, _stop_event, _is_playing, threads,
                    device, nspeak, speak_result, delivered, played_out >>

\* stop_audio() called on its own (a speech event, POST /end)
StopAudioCall ==
    /\ caller.pc = "idle"
    /\ caller' = [pc |-> "set", fn |-> "stop_audio"]
    /\ UNCHANGED << _pipeline, _current_playback_thread, _stop_event, _is_playing, threads,
                    device, nspeak, speak_result, delivered, played_out >>

\* stop_audio(): _stop_event.set()
StopSetEvent ==
    /\ caller.pc = "set"
    /\ _stop_event' = TRUE
    /\ caller' = [caller EXCEPT !.pc = "sdstop"]
    /\ UNCHANGED << _pipeline, _current_playback_thread, _is_playing, threads, device,
                    nspeak, speak_result, delivered, played_out >>

\* stop_audio(): sd.stop()
StopDevice ==
    /\ caller.pc = "sdstop"
    /\ device' = 0
    /\ caller' = [caller EXCEPT !.pc = "join"]
    /\ UNCHANGED << _pipeline, _current_playback_thread, _stop_event, _is_playing, threads,
                    nspeak, speak_result, delivered, played_out >>

\* stop_audio(): no thread, or it is not alive, or join() returned because it ended
StopJoined ==
    /\ caller.pc = "join"
    /\ IF _current_playback_thread = 0 THEN TRUE ELSE ~Alive(_current_playback_thread)
    /\ caller' = [caller EXCEPT !.pc = "flag"]
    /\ UNCHANGED << _pipeline, _current_playback_thread, _stop_event, _is_playing, threads,
                    device, nspeak, speak_result, delivered, played_out >>

\* stop_audio(): join(timeout=1.0) gives up; the worker is still waiting for the
\* synthesizer's next chunk, the one step of the worker that polls nothing
StopJoinTimeout ==
    /\ caller.pc = "join"
    /\ IF _current_playback_thread = 0 THEN FALSE
       ELSE threads[_current_playback_thread].pc = "next"
    /\ caller' = [caller EXCEPT !.pc = "flag"]
    /\ UNCHANGED << _pipeline, _current_playback_thread, _stop_event, _is_playing, threads,
                    device, nspeak, speak_result, delivered, played_out >>

\* stop_audio(): _is_playing = False, return
StopClearFlag ==
    /\ caller.pc = "flag"
    /\ _is_playing' = FALSE
    /\ caller' = IF caller.fn = "speak" THEN [caller EXCEPT !.pc = "clear"]
                 ELSE IF caller.fn = "end" THEN [caller EXCEPT !.pc = "feedback"]
                 ELSE [pc |-> "idle", fn |-> "none"]
    /\ UNCHANGED << _pipeline, _current_playback_thread, _stop_event, threads, device,
                    nspeak, speak_result, delivered, played_out >>

\* speak(): _stop_event.clear()
SpeakClearEvent ==
    /\ caller.pc = "clear"
    /\ _stop_event' = FALSE
    /\ caller' = [caller EXCEPT !.pc = "start"]
    /\ UNCHANGED << _pipeline, _current_playback_thread, _is_playing, threads, device,
                    nspeak, speak_result, delivered, played_out >>

\* speak(): _current_playback_thread = Thread(...); start(); return True
SpeakStartThread ==
    /\ caller.pc = "start"
    /\ nspeak' = nspeak + 1
    /\ _current_playback_thread' = nspeak + 1
    /\ threads' = [threads EXCEPT ![nspeak + 1].pc = "begin"]
    /\ speak_result' = "true"
    /\ caller' = [pc |-> "idle", fn |-> "none"]
    /\ UNCHANGED << _pipeline, _stop_event, _is_playing, device,
                    delivered, played_out >>

\* the narration controller touches nothing of the agent
TTSFrame == UNCHANGED << agentVars, wsVars, storeVars, restVars >>

NextTTS ==
    \/ \E t \in Utter : WorkerBegin(t) /\ TTSFrame
    \/ \E t \in Utter : WorkerNextChunk(t) /\ TTSFrame
    \/ \E t \in Utter : WorkerSynthError(t) /\ TTSFrame
    \/ \E t \in Utter : WorkerCheckStop(t) /\ TTSFrame
    \/ \E t \in Utter : WorkerPlay(t) /\ TTSFrame
    \/ \E t \in Utter : WorkerDeviceError(t) /\ TTSFrame
    \/ \E t \in Utter : WorkerWait(t) /\ TTSFrame
    \/ \E t \in Utter : WorkerFinally(t) /\ TTSFrame
    \/ ChunkFinishes /\ TTSFrame
    \/ SpeakNoPipeline /\ TTSFrame
    \/ SpeakCall /\ TTSFrame
    \/ StopAudioCall /\ TTSFrame
    \/ StopSetEvent /\ TTSFrame
    \/ StopDevice /\ TTSFrame
    \/ StopJoined /\ TTSFrame
    \/ StopJoinTimeout /\ TTSFrame
    \/ StopClearFlag /\ TTSFrame
    \/ SpeakClearEvent /\ TTSFrame
    \/ SpeakStartThread /\ TTSFrame


(***************************************************************************)
(* Text.  A Python str is a sequence of tokens: " " is a whitespace         *)
(* character, every other token is text without whitespace at its ends     *)
(* (one character, or a fixed literal of the code kept whole).  None and a *)
(* missing dict key are one-token values no text contains.                 *)
(***************************************************************************)
None == << "<None>" >>

Absent == << "<absent>" >>

\* the exception a call raised instead of returning
Raised == << "<raised>" >>

\* InterviewAgent.__init__: self.user_code = "No code provided yet."
NoCode == << "No code provided yet." >>

IsStr(s) == s \notin {None, Absent, Raised}

RECURSIVE lstrip(_)
lstrip(s) == IF s # << >> /\ Head(s) = " " THEN lstrip(Tail(s)) ELSE s

RECURSIVE rstrip(_)
rstrip(s) ==
    IF s # << >> /\ s[Len(s)] = " " THEN rstrip(SubSeq(s, 1, Len(s) - 1)) ELSE s

\* str.strip()
strip(s) == rstrip(lstrip(s))

\* str.upper() on a role
upper(role) ==
    CASE role = "user" -> "USER"
      [] role = "assistant" -> "ASSISTANT"
      [] role = "system" -> "SYSTEM"

\* "\n\n".join(parts)
RECURSIVE join(_)
join(parts) ==
    IF parts = << >> THEN << >>
    ELSE IF Len(parts) = 1 THEN parts[1]
    ELSE parts[1] \o << "\n\n" >> \o join(Tail(parts))

\* a turn of self.history; user_code is Absent when the dict has no such key
Turn(role, content, code) == [role |-> role, content |-> content, user_code |-> code]

(***************************************************************************)
(* Transcript store: InterviewAgent's read operations                      *)
(***************************************************************************)

\* self.history[-n:] if n <= len(self.history) else self.history.copy()
\* (h[-0:] is h[0:], the whole list)
get_last_n_messages(h, n) ==
    IF n <= Len(h)
    THEN (IF n = 0 THEN h ELSE SubSeq(h, Len(h) - n + 1, Len(h)))
    ELSE h

\* msg["content"].strip() or msg["user_code"].strip() raises AttributeError on None;
\* the code snapshot is only looked at when the stripped content is non-empty
TurnRaises(m) ==
    \/ m.content = None
    \/ /\ strip(m.content) # << >>
       /\ upper(m.role) = "USER"
       /\ m.user_code = None

\* a variant that compares the snapshot with the sentinel before stripping it
FormatTurnRawSentinel(m) ==
    LET role == upper(m.role)
        content == strip(m.content)
    IN  IF content = << >> THEN << >>
        ELSE IF role = "USER" /\ m.user_code # Absent
                /\ m.user_code # << >> /\ m.user_code # NoCode
             THEN << << role, ": " >> \o content
                        \o << "\n\n", "User Code Context:\n" >> \o strip(m.user_code) >>
             ELSE << << role, ": " >> \o content >>

\* a variant that renders a block for a turn with blank content too
FormatTurnKeepEmpty(m) ==
    LET role == upper(m.role)
        content == strip(m.content)
    IN  IF role = "USER" /\ m.user_code # Absent
           /\ strip(m.user_code) # << >> /\ strip(m.user_code) # NoCode
        THEN << << role, ": " >> \o content
                   \o << "\n\n", "User Code Context:\n" >> \o strip(m.user_code) >>
        ELSE << << role, ": " >> \o content >>

\* the body of get_formatted_history's loop: the blocks (none or one) a turn adds to out
FormatTurn(m) ==
    LET role == upper(m.role)
        content == strip(m.content)
    IN  IF content = << >> THEN << >>
        ELSE IF role = "USER" /\ m.user_code # Absent
                /\ strip(m.user_code) # << >> /\ strip(m.user_code) # NoCode
             THEN << << role, ": " >> \o content
                        \o << "\n\n", "User Code Context:\n" >> \o strip(m.user_code) >>
             ELSE << << role, ": " >> \o content >>

RECURSIVE FormatBlocks(_)
FormatBlocks(h) ==
    IF h = << >> THEN << >> ELSE FormatTurn(Head(h)) \o FormatBlocks(Tail(h))

\* get_formatted_history(): "" for an empty history, else the joined blocks;
\* Raised when a turn makes the loop raise
get_formatted_history(h) ==
    IF h = << >> THEN << >>
    ELSE IF \E i \in 1..Len(h) : TurnRaises(h[i]) THEN Raised
    ELSE join(FormatBlocks(h))

\* InterviewAgent.__init__
InitAgent ==
    /\ history = << >>
    /\ user_code = NoCode
    /\ problem_description = "No problem provided"
    /\ chat_session = "None"
    /\ agent_calls = 0
    /\ model_calls = 0
    /\ payload = << >>

\* no handler holds a message
NoEvent == [message |-> << >>, code |-> << >>]

\* no connection yet: ConnectionManager.__init__
InitWs ==
    /\ active_connections = {}
    /\ ws_pc = "closed"
    /\ event = NoEvent
    /\ last_code_context = << >>
    /\ sent = << >>
    /\ narration = << >>

\* the second client's loop has not started
InitPeer ==
    /\ peer_pc = "closed"
    /\ peer_event = NoEvent
    /\ peer_sent = << >>
    /\ peer_narration = << >>

\* FeedbackAgent.__init__: the three defaults, no chat session
NoContext ==
    [problem |-> "No problem provided",
     chat_history |-> << "No chat history provided yet." >>,
     final_code |-> << "No code provided" >>,
     session |-> FALSE]

\* no FeedbackScore
NoFeedback ==
    [clarification |-> 0, reasoning |-> 0, solution |-> 0, total |-> 0,
     recommendation |-> "none"]

\* no call of the feedback model was made
NoOutcome == [kind |-> "none", scores |-> NoFeedback]

\* POST /end was not called yet
NoResponse == [status |-> 0, success |-> FALSE, feedback |-> NoFeedback]

InitFeedback ==
    /\ feedback_context = NoContext
    /\ end_response = NoResponse
    /\ feedback_response = NoOutcome
    /\ end_calls = 0

\* no connection was made under the first client's id
InitTwin ==
    /\ registered_ws = "none"
    /\ twin_pc = "closed"

\* the speak() calls a QueuedTTS is followed for
MaxSpeak == 3

QueueWorkers == 1..MaxSpeak

\* a thread of _process_queue that was not started
NoWorker == [pc |-> "none", text |-> << >>]

\* QueuedTTS.__init__ through create_queued_tts
InitQueue ==
    /\ speech_queue = << >>
    /\ is_processing = FALSE
    /\ workers = [w \in QueueWorkers |-> NoWorker]
    /\ queue_caller = "idle"
    /\ queue_calls = 0
    /\ passed = << >>
    /\ spoken = << >>
    /\ cleared = {}

\* no call of the latest get_last_n_messages to compare with
NoArg == MaxN + 1

\* formatted is Absent while no rendering of the current transcript was asked for
InitStore ==
    /\ last_n_arg = NoArg
    /\ last_n_result = << >>
    /\ repeated = FALSE
    /\ formatted = Absent

\* texts a stored turn can hold in SpecStore
StoreContents == { << >>, << " ", "h" >> }

StoreCodes == { None, << >>, << " " >>, NoCode, << " " >> \o NoCode, << "x", " " >> }

\* the turns send_message_agent can append: a user turn with its code snapshot,
\* an assistant or system turn without one
StoreTurns ==
    { Turn("user", c, k) : c \in StoreContents, k \in StoreCodes }
        \cup { Turn("assistant", c, Absent) : c \in StoreContents \cup {None} }
        \cup { Turn("system", << "h" >>, Absent) }

RECURSIVE Transcripts(_)
Transcripts(n) ==
    IF n = 0 THEN { << >> }
    ELSE LET shorter == Transcripts(n - 1)
         IN  shorter \cup { Append(h, t) : h \in {x \in shorter : Len(x) = n - 1},
                                          t \in StoreTurns }

InitStoreSpec ==
    /\ InitTTS
    /\ _pipeline
    /\ InitWs
    /\ history \in Transcripts(MaxStoreLen)
    /\ user_code = NoCode
    /\ problem_description = "No problem provided"
    /\ chat_session = "None"
    /\ agent_calls = 0
    /\ model_calls = 0
    /\ payload = << >>
    /\ InitStore
    /\ InitPeer
    /\ InitFeedback
    /\ InitTwin
    /\ InitQueue

\* a variant that keeps only the window, as send_message_agent does for a moment
GetLastNDestructive(n) ==
    /\ last_n_result' = get_last_n_messages(history, n)
    /\ history' = get_last_n_messages(history, n)
    /\ repeated' = (last_n_arg = n)
    /\ last_n_arg' = n
    /\ UNCHANGED << formatted, ttsVars, wsVars, user_code, problem_description, chat_session, agent_calls, model_calls, payload, restVars >>

\* a call of get_last_n_messages(n): reads self.history, assigns nothing
GetLastN(n) ==
    /\ last_n_result' = get_last_n_messages(history, n)
    /\ repeated' = (last_n_arg = n)
    /\ last_n_arg' = n
    /\ UNCHANGED << history, formatted, ttsVars, wsVars, user_code, problem_description, chat_session, agent_calls, model_calls, payload, restVars >>

\* a call of get_formatted_history(): reads self.history, assigns nothing
GetFormatted ==
    /\ formatted' = get_formatted_history(history)
    /\ UNCHANGED << history, last_n_arg, last_n_result, repeated, ttsVars, wsVars, user_code, problem_description, chat_session, agent_calls, model_calls, payload, restVars >>

\* self.history.append(turn)
AppendTurn(t) ==
    /\ Len(history) < MaxStoreLen
    /\ history' = Append(history, t)
    /\ last_n_arg' = NoArg
    /\ repeated' = FALSE
    /\ formatted' = Absent
    /\ UNCHANGED << last_n_result, ttsVars, wsVars, user_code, problem_description, chat_session, agent_calls, model_calls, payload, restVars >>

NextStore ==
    \/ \E n \in 0..MaxN : GetLastN(n)
    \/ GetFormatted
    \/ \E t \in StoreTurns : AppendTurn(t)


(***************************************************************************)
(* InterviewAgent.send_message_agent and update_problem                    *)
(***************************************************************************)

\* what the model can answer: a short affirmation, the closing phrase of END
\* (prompt.py, state 6), or the sentence the prompt prescribes after END
Okay == << "Okay" >>

Great == << "Great, that's a good way to think about it." >>

Closing == << "The interview has concluded. Thank you." >>

Replies == { Okay, Great, Closing }

\* f"An error occurred: {e}" for the AttributeError of the rendering
\* and for an exception of the model client
ErrRender == << "An error occurred: ", "AttributeError" >>

ErrModel == << "An error occurred: ", "ModelError" >>

\* the same f-string for another exception of the model client
ErrQuota == << "An error occurred: ", "429 RESOURCE_EXHAUSTED" >>

\* str(e) of the exceptions, the part of the returned text that comes from the error
ErrorDetails == { "AttributeError", "ModelError", "429 RESOURCE_EXHAUSTED" }

\* what chat_session.send_message does: it returns a response or it raises
ModelOutcomes ==
    [ok : {TRUE}, text : Replies] \cup [ok : {FALSE}, text : {ErrModel, ErrQuota}]

\* the rendering of the recent history raises, with self.history still set to the window
ContextRaises(h) ==
    h # << >> /\ get_formatted_history(get_last_n_messages(h, HistoryWindow)) = Raised

\* a variant that records the turns of a call in front of the earlier ones
HistoryAfterSendInFront(h, message, code, out) ==
    IF ContextRaises(h)
    THEN Append(get_last_n_messages(h, HistoryWindow), Turn("system", ErrRender, Absent))
    ELSE IF ~out.ok
    THEN << Turn("system", out.text, Absent) >> \o h
    ELSE << Turn("user", message, code), Turn("assistant", out.text, Absent) >> \o h

\* context_parts: the "Previous Conversation" part, when the history and the
\* rendering of its recent turns are non-empty
PreviousConversation(h) ==
    LET recent_history == get_last_n_messages(h, HistoryWindow)
        chat_history == get_formatted_history(recent_history)
    IN  IF h # << >> /\ recent_history # << >> /\ chat_history # << >>
        THEN << << "Previous Conversation:\n" >> \o chat_history >>
        ELSE << >>

\* context_parts: the "Current User Code" part, when user_code is truthy and
\* its stripped value is not the sentinel
CurrentUserCode(code) ==
    IF code # None /\ code # << >> /\ strip(code) # NoCode
    THEN << << "Current User Code:\n" >> \o code >>
    ELSE << >>

\* full_message: the message, then the context parts after a blank line
full_message(h, message, code) ==
    LET context_parts == PreviousConversation(h) \o CurrentUserCode(code)
    IN  IF context_parts # << >>
        THEN message \o << "\n\n" >> \o join(context_parts)
        ELSE message

\* self.history after send_message_agent returns
HistoryAfterSend(h, message, code, out) ==
    IF ContextRaises(h)
    THEN Append(get_last_n_messages(h, HistoryWindow), Turn("system", ErrRender, Absent))
    ELSE IF ~out.ok
    THEN Append(h, Turn("system", out.text, Absent))
    ELSE h \o << Turn("user", message, code), Turn("assistant", out.text, Absent) >>

\* what send_message_agent returns
ReplyOfSend(h, out) == IF ContextRaises(h) THEN ErrRender ELSE out.text

\* the whole call: the default problem when no session exists, the context, the
\* model call, the two appended turns, or the except branch
send_message_agent(message, code, out) ==
    /\ history' = HistoryAfterSend(history, message, code, out)
    /\ user_code' = IF ~ContextRaises(history) /\ out.ok THEN code ELSE user_code
    /\ problem_description' =
          IF chat_session = "None" THEN "No problem provided yet" ELSE problem_description
    /\ chat_session' =
          IF ~ContextRaises(history) /\ out.ok /\ out.text = Great THEN "ended"
          ELSE IF chat_session = "None" THEN "open"
          ELSE chat_session
    /\ agent_calls' = agent_calls + 1
    /\ model_calls' = IF ContextRaises(history) THEN model_calls ELSE model_calls + 1
    /\ payload' = IF ContextRaises(history) THEN payload
                  ELSE full_message(history, message, code)

\* GET /problems/random: interview_agent.update_problem(hardcoded_two_sum)
UpdateProblem ==
    /\ problem_description' = "Two Sum"
    /\ chat_session' = "open"
    /\ UNCHANGED << history, user_code, agent_calls, model_calls, payload, wsVars, ttsVars, storeVars, restVars >>

\* send_message_agent called with a message and a code context: a string, or
\* the None of a JSON null codeContext
AgentCodes == { << "x" >>, None }

AgentSend(message, code, out) ==
    /\ agent_calls < MaxAgentCalls
    /\ send_message_agent(message, code, out)
    /\ UNCHANGED << wsVars, ttsVars, storeVars, restVars >>

\* code contexts a message can carry: code, none, the sentinel bare and padded,
\* a JSON null
PayloadCodes == { << "x" >>, << >>, NoCode, << " " >> \o NoCode, None }

\* the model answers, or its client raises
PayloadOutcomes == { [ok |-> TRUE, text |-> Okay], [ok |-> FALSE, text |-> ErrModel] }

NextPayload ==
    \/ \E code \in PayloadCodes, out \in PayloadOutcomes : AgentSend(<< "h" >>, code, out)
    \/ UpdateProblem

NextAgent ==
    \/ \E code \in AgentCodes, out \in ModelOutcomes : AgentSend(<< "h" >>, code, out)
    \/ UpdateProblem

(***************************************************************************)
(* FeedbackAgent and POST /end (api/v1/interview.py)                       *)
(***************************************************************************)
\* FeedbackScore.recommendation: the Literal's four values
Recommendations == { "Strong Hire", "Hire", "No Hire", "Strong No Hire" }

\* category scores the feedback model answers with: the two ends of the range
ScoreSamples == { 0, MaxScore }

\* what response.parsed can be: the schema fixes the field types only, so the
\* model's total is the sum of its category scores or another integer
FeedbackScores ==
    { [clarification |-> c, reasoning |-> r, solution |-> q, total |-> t,
       recommendation |-> rec] :
          c \in ScoreSamples, r \in ScoreSamples, q \in ScoreSamples,
          t \in {0}, rec \in Recommendations }
      \cup
    { [clarification |-> c, reasoning |-> r, solution |-> q, total |-> c + r + q,
       recommendation |-> rec] :
          c \in ScoreSamples, r \in ScoreSamples, q \in ScoreSamples,
          rec \in Recommendations }

\* client.models.generate_content: it returns a response whose parsed is a
\* FeedbackScore, or one whose parsed is None, or it raises
FeedbackOutcomes ==
    [kind : {"parsed"}, scores : FeedbackScores]
        \cup [kind : {"unparsed", "raises"}, scores : {NoFeedback}]

\* FeedbackScore.model_dump_json(): a JSON object of the five scored fields
model_dump_json(f) ==
    << "{", f.clarification, f.reasoning, f.solution, f.total, f.recommendation, "}" >>

\* FeedbackAgent.update_context: the three fields with their defaults, a chat session
update_context(problem, chat_history, final_code) ==
    [problem |-> problem,
     chat_history |-> IF chat_history = << >> THEN << "No chat history provided." >>
                      ELSE chat_history,
     final_code |-> IF final_code = << >> THEN << "No code provided" >> ELSE final_code,
     session |-> TRUE]

\* FeedbackAgent.generate_feedback_json: the dump of response.parsed, or the
\* text of the error (None.model_dump_json() raises AttributeError)
generate_feedback_json(ctx, fo) ==
    IF ~ctx.session
    THEN << "Error: Context not initialized. Please call update_context first." >>
    ELSE IF fo.kind = "parsed" THEN model_dump_json(fo.scores)
    ELSE IF fo.kind = "unparsed"
    THEN << "An error occurred while generating feedback: ", "AttributeError" >>
    ELSE << "An error occurred while generating feedback: ", "ModelError" >>

\* a variant of the parse that answers an unparsable text with default scores
json_loads_lenient(text) ==
    IF Len(text) = 7 /\ text[1] = "{"
    THEN [ok |-> TRUE,
          value |-> [clarification |-> text[2], reasoning |-> text[3],
                     solution |-> text[4], total |-> text[5],
                     recommendation |-> text[6]]]
    ELSE [ok |-> TRUE, value |-> NoFeedback]

\* json.loads(feedback_json): the dict of a JSON object, or JSONDecodeError
json_loads(text) ==
    IF Len(text) = 7 /\ text[1] = "{"
    THEN [ok |-> TRUE,
          value |-> [clarification |-> text[2], reasoning |-> text[3],
                     solution |-> text[4], total |-> text[5],
                     recommendation |-> text[6]]]
    ELSE [ok |-> FALSE, value |-> NoFeedback]

\* raise HTTPException(status_code=500, ...)
HttpError == [status |-> 500, success |-> FALSE, feedback |-> NoFeedback]

\* the response of end_interview for the feedback model's outcome fo
EndResponse(ctx, fo) ==
    LET parsed == json_loads(generate_feedback_json(ctx, fo))
    IN  IF parsed.ok
        THEN [status |-> 200, success |-> TRUE, feedback |-> parsed.value]
        ELSE HttpError

\* len(code_context) on None, or get_formatted_history(), raises before update_context
EndRaisesEarly == user_code = None \/ get_formatted_history(history) = Raised

\* end_interview after its stop_audio(): the context, the feedback call,
\* json.loads, the success response or the HTTP error
RequestFeedback(fo) ==
    IF EndRaisesEarly
    THEN /\ end_response' = HttpError
         /\ feedback_response' = NoOutcome
         /\ UNCHANGED feedback_context
    ELSE /\ feedback_context' = update_context(problem_description,
                                               get_formatted_history(history), user_code)
         /\ feedback_response' = fo
         /\ end_response' = EndResponse(feedback_context', fo)

\* POST /end while no narration runs: stop_audio(), then the feedback request
EndInterview(fo) ==
    /\ end_calls < MaxEndCalls
    /\ end_calls' = end_calls + 1
    /\ caller.pc = "idle"
    /\ AliveThreads = {}
    /\ _stop_event' = TRUE
    /\ device' = 0
    /\ _is_playing' = FALSE
    /\ RequestFeedback(fo)
    /\ UNCHANGED << _pipeline, _current_playback_thread, threads, caller, nspeak,
                    speak_result, delivered, played_out,
                    agentVars, wsVars, storeVars, peerVars, twinVars, queueVars >>

\* POST /end while narration workers may run: end_interview enters stop_audio()
EndCall ==
    /\ end_calls < MaxEndCalls
    /\ caller.pc = "idle"
    /\ caller' = [pc |-> "set", fn |-> "end"]
    /\ UNCHANGED << _pipeline, _current_playback_thread, _stop_event, _is_playing, threads,
                    device, nspeak, speak_result, delivered, played_out,
                    agentVars, wsVars, storeVars, restVars >>

\* stop_audio() has returned to end_interview: the feedback request, the response
EndFeedback(fo) ==
    /\ caller.pc = "feedback"
    /\ end_calls' = end_calls + 1
    /\ RequestFeedback(fo)
    /\ caller' = [pc |-> "idle", fn |-> "none"]
    /\ UNCHANGED << _pipeline, _current_playback_thread, _stop_event, _is_playing, threads,
                    device, nspeak, speak_result, delivered, played_out,
                    agentVars, wsVars, storeVars, peerVars, twinVars, queueVars >>

\* outcomes of the feedback model followed while narration workers run
EndOutcomes ==
    { [kind |-> "raises", scores |-> NoFeedback],
      [kind |-> "parsed",
       scores |-> [clarification |-> MaxScore, reasoning |-> MaxScore,
                   solution |-> MaxScore, total |-> MaxScore * 3,
                   recommendation |-> "Strong Hire"]] }

\* the transcript of three exchanges, longer than the window of the live prompt
LongTranscript ==
    << Turn("user", << "h" >>, << "x" >>), Turn("assistant", Okay, Absent),
       Turn("user", << "h" >>, << "x" >>), Turn("assistant", Okay, Absent),
       Turn("user", << "h" >>, << "x" >>), Turn("assistant", Okay, Absent) >>

\* the agent after three answered messages on a loaded problem
InitAgentLong ==
    /\ history = LongTranscript
    /\ user_code = << "x" >>
    /\ problem_description = "Two Sum"
    /\ chat_session = "open"
    /\ agent_calls = 3
    /\ model_calls = 3
    /\ payload = full_message(SubSeq(LongTranscript, 1, 4), << "h" >>, << "x" >>)

NextEnd ==
    \/ NextTTS
    \/ EndCall
    \/ \E fo \in EndOutcomes : EndFeedback(fo)

\* a message handled by the agent before the interview is ended
TurnBeforeEnd(code, out) ==
    /\ agent_calls < MaxFeedbackTurns
    /\ send_message_agent(<< "h" >>, code, out)
    /\ UNCHANGED << wsVars, ttsVars, storeVars, restVars >>

NextFeedback ==
    \/ \E code \in AgentCodes, out \in ModelOutcomes : TurnBeforeEnd(code, out)
    \/ \E fo \in FeedbackOutcomes : EndInterview(fo)
    \/ UpdateProblem

(***************************************************************************)
(* Coordinator: websocket_endpoint, handle_speech_message,                 *)
(* handle_chat_message of ws.py, for the connection of one client          *)
(***************************************************************************)
ClientId == "c1"

\* the idle branch's nudge_prompt
NudgePrompt == << "The user has been silent for a while." >>

\* handle_chat_message: ai_response = "[AI response placeholder]"
Placeholder == << "[AI response placeholder]" >>

\* data / message fields a client sends: text, or only whitespace
InboundTexts == { << "h" >>, << " " >> }

\* codeContext fields a client sends: a JSON string, or no such key
InboundCodes == { << "x" >>, Absent }

Msg(type, message, tag) == [type |-> type, message |-> message, tag |-> tag]

\* manager.send_personal_message: sends to the websocket stored under the client
\* id, when there is one; the log holds what reaches the connection's own websocket
Push(log, m) ==
    IF ClientId \in active_connections /\ registered_ws = "w1" THEN Append(log, m) ELSE log

\* message_data.get("codeContext", last_code_context)
UpdatedContext(cc) == IF cc = Absent THEN last_code_context ELSE cc

\* message_data.get("codeContext", "")
CodeOf(cc) == IF cc = Absent THEN << >> ELSE cc

\* await manager.connect(websocket, client_id); last_code_context = ""
Connect ==
    /\ ws_pc = "closed"
    /\ active_connections' = active_connections \cup {ClientId}
    /\ registered_ws' = "w1"
    /\ last_code_context' = << >>
    /\ ws_pc' = "recv"
    /\ UNCHANGED << event, sent, narration, agentVars, ttsVars, storeVars,
                    peerVars, feedbackVars, twin_pc, queueVars >>

\* a variant of handle_speech_message without the elif branch of an interim transcript
RecvSpeechSilentInterim(data, is_final, cc) ==
    /\ ws_pc = "recv"
    /\ (is_final /\ strip(data) # << >>) => agent_calls < MaxCalls
    /\ last_code_context' = UpdatedContext(cc)
    /\ narration' = << "stop_audio" >>
    /\ IF is_final /\ strip(data) # << >>
       THEN /\ sent' = Push(<< >>, Msg("user_message", data, "speech"))
            /\ event' = [message |-> data, code |-> CodeOf(cc)]
            /\ ws_pc' = "speech_sleep"
       ELSE /\ sent' = << >>
            /\ UNCHANGED << event, ws_pc >>
    /\ UNCHANGED << active_connections, agentVars, ttsVars, storeVars, restVars >>

\* a speech event arrives: stop_audio(), then the echo and the sleep of a final
\* non-blank transcript, or the interim notification, or nothing
RecvSpeech(data, is_final, cc) ==
    /\ ws_pc = "recv"
    /\ (is_final /\ strip(data) # << >>) => agent_calls < MaxCalls
    /\ last_code_context' = UpdatedContext(cc)
    /\ narration' = << "stop_audio" >>
    /\ IF is_final /\ strip(data) # << >>
       THEN /\ sent' = Push(<< >>, Msg("user_message", data, "speech"))
            /\ event' = [message |-> data, code |-> CodeOf(cc)]
            /\ ws_pc' = "speech_sleep"
       ELSE IF ~is_final
       THEN /\ sent' = Push(<< >>, Msg("interim_speech", data, ""))
            /\ UNCHANGED << event, ws_pc >>
       ELSE /\ sent' = << >>
            /\ UNCHANGED << event, ws_pc >>
    /\ UNCHANGED << active_connections, agentVars, ttsVars, storeVars, restVars >>

\* after the sleep: send_message_agent, the ai_message, speak(ai_response)
SpeechReply(out) ==
    /\ ws_pc = "speech_sleep"
    /\ send_message_agent(event.message, event.code, out)
    /\ sent' = Push(sent, Msg("ai_message", ReplyOfSend(history, out), "response"))
    /\ narration' = Append(narration, ReplyOfSend(history, out))
    /\ ws_pc' = "recv"
    /\ event' = NoEvent
    /\ UNCHANGED << active_connections, last_code_context, ttsVars, storeVars, restVars >>

\* the transport dropped during the sleep: send_message_agent runs, the send of
\* the ai_message raises, speak is not reached, the outer except disconnects
SpeechReplyDropped(out) ==
    /\ ws_pc = "speech_sleep"
    /\ send_message_agent(event.message, event.code, out)
    /\ active_connections' = active_connections \ {ClientId}
    /\ ws_pc' = "closed"
    /\ event' = NoEvent
    /\ UNCHANGED << sent, narration, last_code_context, ttsVars, storeVars, restVars >>

\* a variant of the loop that receives a chat event while a speech event sleeps
RecvChatConcurrent(message, cc) ==
    /\ ws_pc \in {"recv", "speech_sleep"}
    /\ last_code_context' = UpdatedContext(cc)
    /\ narration' = << >>
    /\ IF strip(message) # << >>
       THEN /\ sent' = Push(<< >>, Msg("user_message", message, "text"))
            /\ event' = [message |-> message, code |-> CodeOf(cc)]
            /\ ws_pc' = "chat_sleep"
       ELSE /\ sent' = << >>
            /\ UNCHANGED << event, ws_pc >>
    /\ UNCHANGED << active_connections, agentVars, ttsVars, storeVars, restVars >>

\* a variant of handle_chat_message that tests the message without strip()
RecvChatNoStrip(message, cc) ==
    /\ ws_pc = "recv"
    /\ last_code_context' = UpdatedContext(cc)
    /\ narration' = << >>
    /\ IF message # << >>
       THEN /\ sent' = Push(<< >>, Msg("user_message", message, "text"))
            /\ event' = [message |-> message, code |-> CodeOf(cc)]
            /\ ws_pc' = "chat_sleep"
       ELSE /\ sent' = << >>
            /\ UNCHANGED << event, ws_pc >>
    /\ UNCHANGED << active_connections, agentVars, ttsVars, storeVars, restVars >>

\* a chat event arrives: the echo and the sleep of a non-blank message, or nothing
RecvChat(message, cc) ==
    /\ ws_pc = "recv"
    /\ last_code_context' = UpdatedContext(cc)
    /\ narration' = << >>
    /\ IF strip(message) # << >>
       THEN /\ sent' = Push(<< >>, Msg("user_message", message, "text"))
            /\ event' = [message |-> message, code |-> CodeOf(cc)]
            /\ ws_pc' = "chat_sleep"
       ELSE /\ sent' = << >>
            /\ UNCHANGED << event, ws_pc >>
    /\ UNCHANGED << active_connections, agentVars, ttsVars, storeVars, restVars >>

\* after the sleep: the placeholder is pushed as the ai_message
ChatReply ==
    /\ ws_pc = "chat_sleep"
    /\ sent' = Push(sent, Msg("ai_message", Placeholder, "response"))
    /\ ws_pc' = "recv"
    /\ event' = NoEvent
    /\ UNCHANGED << active_connections, last_code_context, narration,
                    agentVars, ttsVars, storeVars, restVars >>

\* the transport dropped during the sleep: the send of the placeholder raises
ChatReplyDropped ==
    /\ ws_pc = "chat_sleep"
    /\ active_connections' = active_connections \ {ClientId}
    /\ ws_pc' = "closed"
    /\ event' = NoEvent
    /\ UNCHANGED << sent, narration, last_code_context, agentVars, ttsVars, storeVars, restVars >>

\* a variant of the ping branch that also interrupts the narration
RecvPingStopsAudio(cc) ==
    /\ ws_pc = "recv"
    /\ last_code_context' = UpdatedContext(cc)
    /\ sent' = Push(<< >>, Msg("pong", << >>, ""))
    /\ narration' = << "stop_audio" >>
    /\ UNCHANGED << active_connections, ws_pc, event, agentVars, ttsVars, storeVars, restVars >>

\* {"type": "ping"}: pong; last_code_context follows a codeContext key as for
\* every parsed message
RecvPing(cc) ==
    /\ ws_pc = "recv"
    /\ last_code_context' = UpdatedContext(cc)
    /\ sent' = Push(<< >>, Msg("pong", << >>, ""))
    /\ narration' = << >>
    /\ UNCHANGED << active_connections, ws_pc, event, agentVars, ttsVars, storeVars, restVars >>

\* a JSON object of another type, or of none: no branch of the if chain handles it
RecvUnknown(cc) ==
    /\ ws_pc = "recv"
    /\ last_code_context' = UpdatedContext(cc)
    /\ sent' = << >>
    /\ narration' = << >>
    /\ UNCHANGED << active_connections, ws_pc, event, agentVars, ttsVars, storeVars, restVars >>

\* a final speech event whose data is not a string (a JSON number or null):
\* stop_audio(), then transcript.strip() raises AttributeError inside the
\* handler, and the outer except Exception disconnects
RecvSpeechNonText(cc) ==
    /\ ws_pc = "recv"
    /\ last_code_context' = UpdatedContext(cc)
    /\ narration' = << "stop_audio" >>
    /\ sent' = << >>
    /\ active_connections' = active_connections \ {ClientId}
    /\ ws_pc' = "closed"
    /\ UNCHANGED << event, agentVars, ttsVars, storeVars, restVars >>

\* json.loads raises: no TimeoutError, so the outer except Exception disconnects
RecvInvalidJson ==
    /\ ws_pc = "recv"
    /\ active_connections' = active_connections \ {ClientId}
    /\ ws_pc' = "closed"
    /\ sent' = << >>
    /\ narration' = << >>
    /\ UNCHANGED << event, last_code_context, agentVars, ttsVars, storeVars, restVars >>

\* asyncio.TimeoutError after 30 s without a message: the nudge
IdleTimeout(out) ==
    /\ ws_pc = "recv"
    /\ agent_calls < MaxCalls
    /\ send_message_agent(NudgePrompt, last_code_context, out)
    /\ sent' = Push(<< >>, Msg("ai_message", ReplyOfSend(history, out), "hint"))
    /\ narration' = << ReplyOfSend(history, out) >>
    /\ UNCHANGED << active_connections, ws_pc, event, last_code_context, ttsVars, storeVars, restVars >>

\* a variant of the except branches that leaves the registration in place
DisconnectKeepsRegistration ==
    /\ ws_pc = "recv"
    /\ ws_pc' = "closed"
    /\ UNCHANGED << active_connections, event, last_code_context, sent, narration,
                    agentVars, ttsVars, storeVars, restVars >>

\* WebSocketDisconnect out of receive_text: manager.disconnect(client_id)
Disconnect ==
    /\ ws_pc = "recv"
    /\ active_connections' = active_connections \ {ClientId}
    /\ ws_pc' = "closed"
    /\ UNCHANGED << event, last_code_context, sent, narration, agentVars, ttsVars, storeVars, restVars >>

\* ---- websocket_endpoint serving a second client, on the same manager and
\* ---- the same interview_agent; of its events only speech events are followed
PeerId == "c2"

\* manager.send_personal_message for the second client
PeerPush(log, m) == IF PeerId \in active_connections THEN Append(log, m) ELSE log

\* await manager.connect(websocket, client_id)
PeerConnect ==
    /\ peer_pc = "closed"
    /\ active_connections' = active_connections \cup {PeerId}
    /\ peer_pc' = "recv"
    /\ UNCHANGED << peer_event, peer_sent, peer_narration, feedbackVars,
                    ws_pc, event, last_code_context, sent, narration,
                    agentVars, ttsVars, storeVars, twinVars, queueVars >>

\* handle_speech_message for a speech event of the second client
PeerRecvSpeech(data, is_final, cc) ==
    /\ peer_pc = "recv"
    /\ (is_final /\ strip(data) # << >>) => agent_calls < MaxCalls
    /\ peer_narration' = << "stop_audio" >>
    /\ IF is_final /\ strip(data) # << >>
       THEN /\ peer_sent' = PeerPush(<< >>, Msg("user_message", data, "speech"))
            /\ peer_event' = [message |-> data, code |-> CodeOf(cc)]
            /\ peer_pc' = "speech_sleep"
       ELSE IF ~is_final
       THEN /\ peer_sent' = PeerPush(<< >>, Msg("interim_speech", data, ""))
            /\ UNCHANGED << peer_event, peer_pc >>
       ELSE /\ peer_sent' = << >>
            /\ UNCHANGED << peer_event, peer_pc >>
    /\ UNCHANGED << feedbackVars, wsVars, agentVars, ttsVars, storeVars, twinVars, queueVars >>

\* after its sleep: send_message_agent on the shared agent, the ai_message, speak
PeerSpeechReply(out) ==
    /\ peer_pc = "speech_sleep"
    /\ send_message_agent(peer_event.message, peer_event.code, out)
    /\ peer_sent' = PeerPush(peer_sent, Msg("ai_message", ReplyOfSend(history, out), "response"))
    /\ peer_narration' = Append(peer_narration, ReplyOfSend(history, out))
    /\ peer_pc' = "recv"
    /\ peer_event' = NoEvent
    /\ UNCHANGED << feedbackVars, wsVars, ttsVars, storeVars, twinVars, queueVars >>

\* WebSocketDisconnect out of its receive_text
PeerDisconnect ==
    /\ peer_pc = "recv"
    /\ active_connections' = active_connections \ {PeerId}
    /\ peer_pc' = "closed"
    /\ UNCHANGED << peer_event, peer_sent, peer_narration, feedbackVars,
                    ws_pc, event, last_code_context, sent, narration,
                    agentVars, ttsVars, storeVars, twinVars, queueVars >>

\* ---- websocket_endpoint serving a second connection that gives the first
\* ---- client's id; of its loop only the connect and the disconnect are followed

\* manager.connect(websocket, client_id): the dict entry of the id is overwritten
TwinConnect ==
    /\ twin_pc = "closed"
    /\ active_connections' = active_connections \cup {ClientId}
    /\ registered_ws' = "w2"
    /\ twin_pc' = "recv"
    /\ UNCHANGED << ws_pc, event, last_code_context, sent, narration,
                    agentVars, ttsVars, storeVars, peerVars, feedbackVars, queueVars >>

\* WebSocketDisconnect in the second connection: manager.disconnect(client_id)
\* deletes the entry of the id, whichever websocket it holds
TwinDisconnect ==
    /\ twin_pc = "recv"
    /\ active_connections' = active_connections \ {ClientId}
    /\ twin_pc' = "closed"
    /\ UNCHANGED << registered_ws, ws_pc, event, last_code_context, sent, narration,
                    agentVars, ttsVars, storeVars, peerVars, feedbackVars, queueVars >>

NextTwin ==
    \/ Connect
    \/ \E cc \in InboundCodes : RecvPing(cc)
    \/ \E f \in BOOLEAN, cc \in InboundCodes : RecvSpeech(<< "h" >>, f, cc)
    \/ \E out \in ModelOutcomes : SpeechReply(out)
    \/ Disconnect
    \/ TwinConnect
    \/ TwinDisconnect

\* two clients whose final speech events meet on the one interview_agent
NextSessions ==
    \/ Connect
    \/ \E f \in BOOLEAN, cc \in InboundCodes : RecvSpeech(<< "h" >>, f, cc)
    \/ \E out \in ModelOutcomes : SpeechReply(out)
    \/ Disconnect
    \/ PeerConnect
    \/ \E f \in BOOLEAN, cc \in InboundCodes : PeerRecvSpeech(<< "h" >>, f, cc)
    \/ \E out \in ModelOutcomes : PeerSpeechReply(out)
    \/ PeerDisconnect

Next ==
    \/ Connect
    \/ \E d \in InboundTexts, f \in BOOLEAN, cc \in InboundCodes : RecvSpeech(d, f, cc)
    \/ \E out \in ModelOutcomes : SpeechReply(out)
    \/ \E out \in ModelOutcomes : SpeechReplyDropped(out)
    \/ \E m \in InboundTexts, cc \in InboundCodes : RecvChat(m, cc)
    \/ ChatReply
    \/ ChatReplyDropped
    \/ \E cc \in InboundCodes : RecvPing(cc)
    \/ \E cc \in InboundCodes : RecvUnknown(cc)
    \/ RecvInvalidJson
    \/ \E cc \in InboundCodes : RecvSpeechNonText(cc)
    \/ \E out \in ModelOutcomes : IdleTimeout(out)
    \/ Disconnect
    \/ UpdateProblem

\* the narration controller and the store's observations stay as constructed
Init ==
    InitTTS /\ _pipeline /\ InitAgent /\ InitWs /\ InitStore /\ InitPeer /\ InitFeedback /\ InitTwin /\ InitQueue

(***************************************************************************)
(* Specifications                                                          *)
(***************************************************************************)
\* the narration service alone: the pipeline may or may not have initialised
InitTTSSpec ==
    InitTTS /\ InitAgent /\ InitWs /\ InitStore /\ InitPeer /\ InitFeedback /\ InitTwin /\ InitQueue

SpecTTS == InitTTSSpec /\ [][NextTTS]_vars

SpecStore == InitStoreSpec /\ [][NextStore]_vars

Spec == Init /\ [][Next]_vars

SpecAgent == Init /\ [][NextAgent]_vars

SpecPayload == Init /\ [][NextPayload]_vars

SpecTwin == Init /\ [][NextTwin]_vars

SpecSessions == Init /\ [][NextSessions]_vars

SpecFeedback == Init /\ [][NextFeedback]_vars

\* POST /end with the narration controller's threads, after three exchanges
InitEnd ==
    InitTTS /\ InitAgentLong /\ InitWs /\ InitStore /\ InitPeer /\ InitFeedback /\ InitTwin /\ InitQueue

SpecEnd == InitEnd /\ [][NextEnd]_vars

(***************************************************************************)
(* Properties of the narration controller, checked under SpecTTS.          *)
(***************************************************************************)

\* C3: in every reachable state at most one playback worker thread is alive,
\* also when stop_audio()'s join(timeout=1.0) gave up on the previous worker.
C3_AtMostOneWorkerAlive == Cardinality(AliveThreads) <= 1

\* C4: once speak(B) has returned, an utterance A of an earlier speak() is
\* silenced: no further chunk of A is delivered to the device and no chunk of A
\* plays to its end, so only B can still run to completion.
C4_SupersededIsSilenced ==
    [][\A a \in Utter :
          a < nspeak => /\ delivered'[a] = delivered[a]
                        /\ played_out'[a] = played_out[a]]_vars

\* C5: is_playing() is true while the worker of the current utterance has a chunk
\* on the device, and false when no worker is alive.
C5_IsPlayingReportsWorker ==
    /\ \A t \in Utter :
          (t = _current_playback_thread /\ threads[t].pc = "wait" /\ device = t)
              => is_playing
    /\ (AliveThreads = {}) => ~is_playing

\* C6: a synthesis or device error in the worker stays in the worker: the step
\* that raises leaves the caller of speak() and its return value alone, the
\* worker then terminates, and at the step that ends it is_playing() is false.
C6_WorkerErrorContained ==
    [][\A t \in Utter :
          /\ (~threads[t].failed /\ threads'[t].failed)
                => /\ caller' = caller
                   /\ speak_result' = speak_result
                   /\ threads'[t].pc = "finally"
          /\ (threads[t].failed /\ Alive(t) /\ ~Alive(t)')
                => ~is_playing']_vars

\* C6 witness: speak() returned True, its worker failed and has terminated,
\* and is_playing() is false.
C6_Witness ==
    \E t \in Utter :
        /\ threads[t].failed
        /\ threads[t].pc = "dead"
        /\ speak_result = "true"
        /\ ~is_playing

(***************************************************************************)
(* Properties of the transcript store, checked under SpecStore.            *)
(***************************************************************************)
Min(a, b) == IF a <= b THEN a ELSE b

\* sub occurs in s as a run of consecutive tokens
HasSub(s, sub) ==
    \E i \in 0..Len(s) : i + Len(sub) <= Len(s) /\ SubSeq(s, i + 1, i + Len(sub)) = sub

Count(tok, s) == Cardinality({i \in 1..Len(s) : s[i] = tok})

\* the block of a user turn that shows its code
BlockWithCode(m) ==
    << "USER", ": " >> \o strip(m.content)
        \o << "\n\n", "User Code Context:\n" >> \o strip(m.user_code)

\* C8: get_last_n_messages(n) returns exactly the last min(n, L) turns of a
\* transcript of length L, in their order, for every n >= 0.
C8_LastNIsLastMin ==
    last_n_arg # NoArg =>
        last_n_result = SubSeq(history, Len(history) - Min(last_n_arg, Len(history)) + 1,
                               Len(history))

\* C9: a call of get_last_n_messages leaves the transcript as it was, and a call
\* with the same n as the call before it, no append in between, returns what
\* that call returned.
C9_LastNReadOnlyIdempotent ==
    [][\A n \in 0..MaxN :
          GetLastN(n) => /\ history' = history
                         /\ (last_n_arg = n => last_n_result' = last_n_result)]_vars

\* C9 witness: the same n was asked twice in a row on a non-empty transcript.
C9_Witness ==
    /\ repeated
    /\ last_n_arg # NoArg
    /\ last_n_result # << >>

\* a user turn whose snapshot is a non-blank string other than the sentinel
HasCodeAsStated(m) ==
    /\ m.role = "user"
    /\ IsStr(m.user_code)
    /\ strip(m.user_code) # << >>
    /\ m.user_code # NoCode

\* C10 as stated: every user turn whose snapshot is non-empty and is not the
\* sentinel renders a block with its message text and a "User Code Context:"
\* section with its code, and no other turn renders such a section.
C10_CodeSectionAsStated ==
    IsStr(formatted) =>
        /\ \A i \in 1..Len(history) :
              HasCodeAsStated(history[i]) => HasSub(formatted, BlockWithCode(history[i]))
        /\ Count("User Code Context:\n", formatted)
              = Cardinality({i \in 1..Len(history) : HasCodeAsStated(history[i])})

\* a user turn that renders at all and whose trimmed snapshot is a non-empty
\* string other than the sentinel
HasCode(m) ==
    /\ m.role = "user"
    /\ strip(m.content) # << >>
    /\ IsStr(m.user_code)
    /\ strip(m.user_code) # << >>
    /\ strip(m.user_code) # NoCode

\* C10 amended: a user turn with non-empty trimmed content whose snapshot, once
\* trimmed, is non-empty and is not the sentinel renders a block with the trimmed
\* message text and a "User Code Context:" section with the trimmed code; every
\* other turn (sentinel, empty or blank snapshot, empty content, assistant,
\* system) renders no such section.
C10_CodeSectionTrimmed ==
    IsStr(formatted) =>
        /\ \A i \in 1..Len(history) :
              HasCode(history[i]) => HasSub(formatted, BlockWithCode(history[i]))
        /\ Count("User Code Context:\n", formatted)
              = Cardinality({i \in 1..Len(history) : HasCode(history[i])})

\* C10 witness: a rendering of a transcript with one user turn that shows its
\* code and one user turn whose snapshot is the sentinel.
C10_Witness ==
    /\ IsStr(formatted)
    /\ \E i \in 1..Len(history) : HasCode(history[i])
    /\ \E j \in 1..Len(history) :
          /\ history[j].role = "user"
          /\ strip(history[j].content) # << >>
          /\ history[j].user_code = NoCode
    /\ Count("User Code Context:\n", formatted) = 1

\* the turns that have text once trimmed, in transcript order
RenderedTurns(h) == SelectSeq(h, LAMBDA m : strip(m.content) # << >>)

\* the role tokens of a rendering, in order: each token followed by ": "
RECURSIVE HeadersOf(_)
HeadersOf(s) ==
    IF Len(s) < 2 THEN << >>
    ELSE IF s[2] = ": " THEN << s[1] >> \o HeadersOf(Tail(s))
    ELSE HeadersOf(Tail(s))

\* C11: get_formatted_history renders one "ROLE: content" block per turn whose
\* trimmed content is non-empty, in transcript order, with a blank line between
\* blocks; a turn with empty content renders no block, and an empty transcript
\* renders as the empty string.
C11_OneBlockPerNonEmptyTurn ==
    (IsStr(formatted) /\ formatted # Absent) =>
        LET r == RenderedTurns(history)
        IN  /\ HeadersOf(formatted) = [k \in 1..Len(r) |-> upper(r[k].role)]
            /\ \A k \in 1..Len(r) :
                  HasSub(formatted, << upper(r[k].role), ": " >> \o strip(r[k].content))
            /\ \A p \in 2..Len(formatted) :
                  (p < Len(formatted) /\ formatted[p + 1] = ": ") => formatted[p - 1] = "\n\n"
            /\ r # << >> =>
                  /\ formatted[2] = ": "
                  /\ Count("\n\n", formatted)
                        = (Len(r) - 1) + Count("User Code Context:\n", formatted)
            /\ r = << >> => formatted = << >>

\* C11 witness: a rendering of a user turn followed by an assistant turn, both
\* with text, as two blocks with one blank line between them.
C11_Witness ==
    /\ IsStr(formatted)
    /\ Len(history) = 2
    /\ history[1].role = "user" /\ history[1].user_code = NoCode
    /\ history[2].role = "assistant"
    /\ HeadersOf(formatted) = << "USER", "ASSISTANT" >>
    /\ Count("\n\n", formatted) = 1

(***************************************************************************)
(* Properties of the coordinator (Spec) and of the agent (SpecAgent).      *)
(***************************************************************************)

\* outbound messages the step pushed: all of sent' when a handler started
\* afresh, else what it added to sent
NewlySent ==
    IF sent' = sent THEN << >>
    ELSE IF ws_pc = "recv" THEN sent'
    ELSE SubSeq(sent', Len(sent) + 1, Len(sent'))

\* C2: once the session has reached END (the model said the closing phrase in
\* this chat session), handling a later inbound message makes no call to the
\* model, and every ai_message it pushes is the fixed closing string.
C2_EndIsTerminal ==
    [][chat_session = "ended" =>
          /\ model_calls' = model_calls
          /\ \A i \in 1..Len(NewlySent) :
                NewlySent[i].type = "ai_message" => NewlySent[i].message = Closing]_vars

\* C7: for every call of send_message_agent, whatever step of it fails, the
\* transcript before the call is a prefix of the transcript after it.
C7_TranscriptAppendOnly ==
    [][/\ Len(history) <= Len(history')
       /\ SubSeq(history', 1, Len(history)) = history]_vars

\* the turns the step appended to the transcript
NewTurns == SubSeq(history', Len(history) + 1, Len(history'))

\* the step that ends a handler has made the whole round trip of the event it holds
RoundTrip ==
    /\ Len(sent') = 2
    /\ sent'[1].type = "user_message" /\ sent'[1].message = event.message
    /\ sent'[2].type = "ai_message"
    /\ model_calls' = model_calls + 1
    /\ Len(NewTurns) = 2
    /\ NewTurns[1].role = "user" /\ NewTurns[1].content = event.message
    /\ NewTurns[2].role = "assistant" /\ NewTurns[2].content = sent'[2].message
    /\ narration' # << >>
    /\ narration'[Len(narration')] = sent'[2].message

\* C12: for every chat event and every final speech event with non-empty
\* trimmed content (here with a model that answers), the coordinator pushes the
\* user_message echo, appends a user turn, obtains a reply from the agent,
\* appends an assistant turn, pushes the reply as the ai_message and starts
\* its narration.
C12_EventRoundTrip ==
    [][/\ \A out \in ModelOutcomes : (out.ok /\ SpeechReply(out)) => RoundTrip
       /\ ChatReply => RoundTrip]_vars

\* C13: handling a non-final speech event sends exactly one interim_speech
\* notification, leaves the transcript unchanged and makes no model call.
C13_InterimOnlyNotifies ==
    [][\A d \in InboundTexts, cc \in InboundCodes :
          RecvSpeech(d, FALSE, cc) =>
              /\ sent' = << Msg("interim_speech", d, "") >>
              /\ history' = history
              /\ model_calls' = model_calls
              /\ agent_calls' = agent_calls
              /\ chat_session' = chat_session]_vars

\* C13 witness: an interim notification was the only message of a handler that
\* ran on a transcript with turns, and the loop is receiving again.
C13_Witness ==
    /\ ws_pc = "recv"
    /\ Len(sent) = 1
    /\ sent[1].type = "interim_speech"
    /\ history # << >>
    /\ model_calls > 0

\* C14: handling a ping sends exactly one pong and nothing else: the
\* transcript, the agent's current code, the model session and the narration
\* are as before.
C14_PingOnlyPongs ==
    [][\A cc \in InboundCodes :
          RecvPing(cc) =>
              /\ sent' = << Msg("pong", << >>, "") >>
              /\ narration' = << >>
              /\ UNCHANGED << history, user_code, chat_session, problem_description,
                              model_calls, agent_calls, ttsVars >>
              /\ ClientId \in active_connections'
              /\ ws_pc' = "recv"]_vars

\* C14 witness: a pong was the only message of a handler that ran while the
\* agent held turns and a code snapshot of the client.
C14_Witness ==
    /\ ws_pc = "recv"
    /\ sent = << Msg("pong", << >>, "") >>
    /\ narration = << >>
    /\ history # << >>
    /\ user_code = << "x" >>
    /\ chat_session = "open"

\* C15: each expiry of the idle timeout makes one model call, appends one
\* assistant turn, pushes one ai_message of messageType hint and starts one
\* narration, with the connection still registered and the loop receiving.
C15_OneNudgePerTimeout ==
    [][\A out \in ModelOutcomes :
          IdleTimeout(out) =>
              /\ model_calls' = model_calls + 1
              /\ Cardinality({i \in 1..Len(NewTurns) : NewTurns[i].role = "assistant"}) = 1
              /\ Len(sent') = 1
              /\ sent'[1].type = "ai_message" /\ sent'[1].tag = "hint"
              /\ narration' = << sent'[1].message >>
              /\ ClientId \in active_connections'
              /\ ws_pc' = "recv"]_vars

\* C16: after an idle timeout is handled (the model answered), the transcript
\* has gained an assistant turn with the nudge reply, and no turn of role user
\* holds the nudge prompt.
C16_NudgeIsSystemOriginated ==
    [][\A out \in ModelOutcomes :
          (out.ok /\ IdleTimeout(out)) =>
              /\ \E i \in 1..Len(NewTurns) :
                    NewTurns[i].role = "assistant" /\ NewTurns[i].content = out.text
              /\ \A i \in 1..Len(history') :
                    ~(history'[i].role = "user" /\ history'[i].content = NudgePrompt)]_vars

\* C17: a payload that is not JSON, or that is JSON of an unknown or missing
\* type, is dropped: nothing is pushed, no turn is appended, no model call is
\* made, the connection stays registered and the loop receives the next message.
C17_MalformedDropped ==
    [][(RecvInvalidJson \/ \E cc \in InboundCodes : RecvUnknown(cc)) =>
          /\ sent' = << >>
          /\ history' = history
          /\ model_calls' = model_calls
          /\ ClientId \in active_connections'
          /\ ws_pc' = "recv"]_vars

\* C18: no step of the loop other than a transport disconnect (and the
\* unparsable payload of C17) ends it: the connection is still registered and
\* the loop is receiving or inside a handler.
C18_HandlerErrorKeepsLoop ==
    [][(/\ ws_pc # "closed"
        /\ ~Disconnect
        /\ ~ChatReplyDropped
        /\ ~(\E out \in ModelOutcomes : SpeechReplyDropped(out))
        /\ ~RecvInvalidJson) =>
          /\ ClientId \in active_connections'
          /\ ws_pc' # "closed"]_vars

\* the step is a call of send_message_agent by the coordinator whose model call fails
ModelCallFails(out) ==
    /\ ~out.ok
    /\ ~ContextRaises(history)
    /\ SpeechReply(out) \/ IdleTimeout(out)

\* C19: when the model call fails, send_message_agent returns (one call, one
\* attempt), and the text pushed and narrated is the same for every error and
\* holds no detail of the error; the loop goes on.
C19_FixedApology ==
    [][\A out \in ModelOutcomes :
          ModelCallFails(out) =>
              /\ agent_calls' = agent_calls + 1
              /\ model_calls' = model_calls + 1
              /\ ws_pc' = "recv" /\ ClientId \in active_connections'
              /\ narration'[Len(narration')] = sent'[Len(sent')].message
              /\ \A other \in ModelOutcomes :
                    ~other.ok => ReplyOfSend(history, other) = sent'[Len(sent')].message
              /\ \A e \in ErrorDetails : Count(e, sent'[Len(sent')].message) = 0]_vars

\* C20: when the model call of send_message_agent fails, no turn at all is
\* appended to the transcript for that event.
C20_NoTurnOnFailure ==
    [][\A code \in AgentCodes, out \in ModelOutcomes :
          (~out.ok /\ AgentSend(<< "h" >>, code, out)) => history' = history]_vars

\* the turns one processed event causes: the pair of a call that succeeds, or
\* the system turn of a call that fails
CausedBy(message, code, out) ==
    IF ContextRaises(history) THEN << Turn("system", ErrRender, Absent) >>
    ELSE IF out.ok THEN << Turn("user", message, code), Turn("assistant", out.text, Absent) >>
    ELSE << Turn("system", out.text, Absent) >>

\* the transcript after the step is turns of the transcript before it, in their
\* order and up to its end, followed by the turns ts
EndsWith(ts) ==
    /\ Len(history') >= Len(ts)
    /\ SubSeq(history', Len(history') - Len(ts) + 1, Len(history')) = ts
    /\ \E j \in 0..Len(history) :
          SubSeq(history', 1, Len(history') - Len(ts)) = SubSeq(history, j + 1, Len(history))

\* C21: the coordinator has at most one model call in flight (every step makes
\* at most one call, and it is the call of the event being processed), and
\* turns are appended in the order the events are processed: each processing
\* step puts the turns of its own event after all earlier ones, and no other
\* step touches the transcript.
C21_OneCallTurnsInOrder ==
    [][/\ model_calls' \in {model_calls, model_calls + 1}
       /\ \A out \in ModelOutcomes :
             /\ SpeechReply(out) => EndsWith(CausedBy(event.message, event.code, out))
             /\ SpeechReplyDropped(out) =>
                   EndsWith(CausedBy(event.message, event.code, out))
             /\ IdleTimeout(out) => EndsWith(CausedBy(NudgePrompt, last_code_context, out))
       /\ (history' # history \/ model_calls' # model_calls) =>
             \E out \in ModelOutcomes :
                 SpeechReply(out) \/ SpeechReplyDropped(out) \/ IdleTimeout(out)]_vars

\* C21 witness: an idle timeout and then a final speech event were processed,
\* and the transcript holds the turns of the first before those of the second.
C21_Witness ==
    /\ ws_pc = "recv"
    /\ model_calls = 2
    /\ Len(history) = 4
    /\ history[1].role = "user" /\ history[1].content = NudgePrompt
    /\ history[2].role = "assistant"
    /\ history[3].role = "user" /\ history[3].content = << "h" >>
    /\ history[4].role = "assistant"

\* C22: the agent's current code (the final code of POST /end) is the
\* codeContext of the most recent inbound event that carried one: whenever it
\* changes it becomes that value, so an event without a codeContext never
\* rolls it back or clears it.
C22_CurrentCodeIsLatestContext ==
    [][user_code' # user_code => user_code' = last_code_context']_vars

(***************************************************************************)
(* Properties of two connections (SpecSessions).                           *)
(***************************************************************************)

\* C23: with two live connections, what an event of one connection records
\* stays in that connection's session: processing an event of the second
\* client changes neither the transcript nor the model context nor the current
\* code that the first client's events are handled with.
C23_SessionsIndependent ==
    [][\A out \in ModelOutcomes :
          (ClientId \in active_connections /\ PeerSpeechReply(out)) =>
              UNCHANGED << history, user_code, chat_session >>]_vars

(***************************************************************************)
(* Properties of POST /end (SpecFeedback).                                 *)
(***************************************************************************)

\* C24: when the feedback model call fails or its structured output is
\* missing or unparseable, POST /end answers with an explicit failure; a
\* success response only ever carries the scores the model produced.
C24_FeedbackFailureIsExplicit ==
    /\ end_response.status \in {0, 200, 500}
    /\ feedback_response.kind \in {"unparsed", "raises"} =>
          end_response.status = 500 /\ ~end_response.success
    /\ end_response.status = 200 =>
          /\ feedback_response.kind = "parsed"
          /\ end_response.success
          /\ end_response.feedback = feedback_response.scores

\* C24 witness: POST /end built the feedback context from a transcript with
\* turns, the feedback call gave no scores, and the response is the HTTP error.
C24_Witness ==
    /\ end_response = HttpError
    /\ feedback_response.kind \in {"unparsed", "raises"}
    /\ feedback_context.session
    /\ history # << >>
    /\ feedback_context.chat_history = get_formatted_history(history)

\* the recommendations the heuristic table allows for three category scores
Admissible(c, r, q) ==
    LET total == c + r + q
        all == {c, r, q}
    IN  (IF (\A x \in all : x >= 4) /\ (\E x \in all : x = 5)
            THEN {"Strong Hire"} ELSE {})
        \cup (IF total >= 10 /\ (\A x \in all : x >= 3) THEN {"Hire"} ELSE {})
        \cup (IF total \in 6..9 \/ (\E x \in all : x = 2) THEN {"No Hire"} ELSE {})
        \cup (IF (\E x \in all : x <= 1) \/ total <= 5 THEN {"Strong No Hire"} ELSE {})

\* C25: for every triple of category scores in 0..5, the report's total is
\* their sum and its recommendation is one the heuristic table gives for them.
C25_ReportMatchesHeuristic ==
    end_response.status = 200 =>
        LET f == end_response.feedback
        IN  /\ f.total = f.clarification + f.reasoning + f.solution
            /\ f.recommendation \in Admissible(f.clarification, f.reasoning, f.solution)

(***************************************************************************)
(* Properties of the connection's loop, continued (Spec).                  *)
(***************************************************************************)

\* the transport's drop is noticed: by receive_text, or by the send after a sleep
TransportDrop ==
    \/ Disconnect
    \/ ChatReplyDropped
    \/ \E out \in ModelOutcomes : SpeechReplyDropped(out)

\* C26: when the transport drops, the connection's registration is removed and
\* its loop stops: while it is stopped no event is handled, nothing is sent or
\* narrated and the agent is not called, until a client connects anew.
C26_DropEndsLoop ==
    [][/\ TransportDrop => (ClientId \notin active_connections' /\ ws_pc' = "closed")
       /\ ws_pc = "closed" =>
             /\ ClientId \notin active_connections
             /\ Connect \/ UNCHANGED << wsVars, history, user_code, model_calls >>]_vars

\* C26 witness: the transport dropped while a final speech event was being
\* handled: its echo went out, the model answered, and the loop is stopped
\* with the registration removed.
C26_Witness ==
    /\ ws_pc = "closed"
    /\ ClientId \notin active_connections
    /\ Len(sent) = 1 /\ sent[1].type = "user_message"
    /\ history # << >>

\* C27: a chat event, or a final speech event, whose text is blank is dropped
\* silently: nothing is sent (no echo, no ai_message), the model is not
\* called, the transcript does not change, and the loop receives again.
C27_BlankEventDropped ==
    [][\A d \in InboundTexts, cc \in InboundCodes :
          (strip(d) = << >> /\ (RecvSpeech(d, TRUE, cc) \/ RecvChat(d, cc))) =>
              /\ sent' = << >>
              /\ ws_pc' = "recv"
              /\ event' = event
              /\ UNCHANGED agentVars]_vars

\* C27 witness: a blank final speech event was handled on a connection whose
\* transcript has turns: the narration was stopped, nothing was sent, and the
\* loop receives again.
C27_Witness ==
    /\ ws_pc = "recv"
    /\ narration = << "stop_audio" >>
    /\ sent = << >>
    /\ history # << >>

\* a handler is between its echo and its reply
InProgress == ws_pc \in {"speech_sleep", "chat_sleep"}

\* the loop takes an inbound event or the idle timeout
TakesEvent ==
    \/ \E d \in InboundTexts, f \in BOOLEAN, cc \in InboundCodes : RecvSpeech(d, f, cc)
    \/ \E m \in InboundTexts, cc \in InboundCodes : RecvChat(m, cc)
    \/ \E cc \in InboundCodes : RecvPing(cc) \/ RecvUnknown(cc) \/ RecvSpeechNonText(cc)
    \/ RecvInvalidJson
    \/ \E out \in ModelOutcomes : IdleTimeout(out)

\* C28: the replies of one connection are strictly ordered: no event is taken
\* while an earlier one is in progress, and what an event has sent when its
\* handler completes is its echo followed by its ai_message.
C28_RepliesOrdered ==
    [][/\ InProgress => ~TakesEvent
       /\ \A out \in ModelOutcomes :
             SpeechReply(out) =>
                 sent' = << Msg("user_message", event.message, "speech"),
                            Msg("ai_message", ReplyOfSend(history, out), "response") >>
       /\ ChatReply =>
             sent' = << Msg("user_message", event.message, "text"),
                        Msg("ai_message", Placeholder, "response") >>]_vars

\* C28 witness: the second of two events handled one after the other completed
\* with its echo before its ai_message.
C28_Witness ==
    /\ ws_pc = "recv"
    /\ model_calls = 2
    /\ Len(sent) = 2
    /\ sent[1].type = "user_message" /\ sent[1].tag = "speech"
    /\ sent[2].type = "ai_message" /\ sent[2].tag = "response"

(***************************************************************************)
(* Properties of the narration controller, continued (SpecTTS).            *)
(***************************************************************************)

\* stop_audio() has returned and speak() was not called since: the stop event
\* is set (only speak() clears it) and no call is under way
Stopped == caller.pc = "idle" /\ _stop_event

\* C29: after stop_audio() has returned and until the next speak(), no new
\* worker is started and no worker delivers a further chunk to the device.
C29_SilentAfterStop ==
    [][Stopped =>
          /\ delivered' = delivered
          /\ \A t \in Utter : threads[t].pc = "unborn" => threads'[t].pc = "unborn"]_vars

(***************************************************************************)
(* Properties of the agent's problem (Spec).                               *)
(***************************************************************************)

\* C30: the problem is immutable once set: after the first update_problem (the
\* agent has a chat session) no later operation, another problem request
\* included, changes the problem description.
C30_ProblemImmutableOnceSet ==
    [][chat_session # "None" => problem_description' = problem_description]_vars

(***************************************************************************)
(* Properties of POST /end with narration (SpecEnd).                       *)
(***************************************************************************)

\* the feedback context end_interview builds from the agent's state
ContextOfAgent ==
    update_context(problem_description, get_formatted_history(history), user_code)

\* C31: POST /end stops any narration before it requests feedback (once its
\* stop_audio() has returned the device is silent and no worker delivers a
\* chunk), and the feedback context is built from the rendering of the full
\* transcript, the agent's current code and its problem description.
C31_EndStopsThenFullContext ==
    [][/\ caller.pc = "feedback" => (device = 0 /\ delivered' = delivered)
       /\ \A fo \in EndOutcomes :
             (EndFeedback(fo) /\ ~EndRaisesEarly) =>
                 /\ feedback_context' = ContextOfAgent
                 /\ feedback_context'.chat_history = join(FormatBlocks(history))
                 /\ feedback_context'.final_code = user_code
                 /\ feedback_context'.problem = problem_description]_vars

(***************************************************************************)
(* Properties of the transcript's rendering at POST /end (SpecFeedback).   *)
(***************************************************************************)

\* C32: for every transcript the agent can record, get_formatted_history
\* returns a string and does not raise, so a recorded turn never makes POST
\* /end fail: a failure response comes from the feedback model only.
C32_RenderingNeverRaises ==
    /\ get_formatted_history(history) # Raised
    /\ end_response.status = 500 => feedback_response.kind \in {"unparsed", "raises"}

(***************************************************************************)
(* Properties of the live model payload (SpecPayload).                     *)
(***************************************************************************)

\* where a section's heading stands in a payload that has it
PositionOf(heading, p) == CHOOSE i \in 1..Len(p) : p[i] = heading

HasSection(heading, p) == \E i \in 1..Len(p) : p[i] = heading

\* the text of the "Previous Conversation" section of a payload that has one
PreviousOf(p) ==
    SubSeq(p, PositionOf("Previous Conversation:\n", p) + 1,
           IF HasSection("Current User Code:\n", p)
           THEN PositionOf("Current User Code:\n", p) - 2
           ELSE Len(p))

\* the HistoryWindow most recent turns, or all turns when there are fewer
Recent(h) ==
    SubSeq(h, IF Len(h) > HistoryWindow THEN Len(h) - HistoryWindow + 1 ELSE 1, Len(h))

\* C33: the payload of a model call holds as previous conversation the
\* rendering of at most the 5 most recent recorded turns and never the current
\* message, and a "Current User Code" section exactly when the supplied code is
\* non-empty and is not the sentinel; after the call the transcript is the full
\* earlier transcript plus the new turns, not the 5-turn window.
C33_LivePayloadAsStated ==
    [][\A code \in PayloadCodes, out \in PayloadOutcomes :
          AgentSend(<< "h" >>, code, out) =>
              /\ model_calls' = model_calls + 1 =>
                    /\ SubSeq(payload', 1, 1) = << "h" >>
                    /\ HasSection("Previous Conversation:\n", payload')
                          <=> join(FormatBlocks(Recent(history))) # << >>
                    /\ HasSection("Previous Conversation:\n", payload') =>
                          /\ PreviousOf(payload') = join(FormatBlocks(Recent(history)))
                          /\ Len(HeadersOf(PreviousOf(payload'))) <= HistoryWindow
                    /\ HasSection("Current User Code:\n", payload')
                          <=> (code # None /\ code # << >> /\ code # NoCode)
              /\ Len(history') > Len(history)
              /\ SubSeq(history', 1, Len(history)) = history]_vars

(***************************************************************************)
(* Properties of the transcript's shape (SpecAgent).                       *)
(***************************************************************************)

\* C34: in every reachable transcript user and assistant turns occur only as
\* adjacent pairs: a user turn is immediately followed by an assistant turn and
\* an assistant turn is immediately preceded by a user turn.
C34_UserAssistantPairs ==
    \A i \in 1..Len(history) :
        /\ history[i].role = "user" =>
              (i < Len(history) /\ history[i + 1].role = "assistant")
        /\ history[i].role = "assistant" =>
              (i > 1 /\ history[i - 1].role = "user")

(***************************************************************************)
(* Properties of narration after a speech event (SpecTTS).                 *)
(***************************************************************************)

\* C35: every speech event stops in-flight narration first (its stop_audio(),
\* and the one inside the speak() of its reply), so that once the event is
\* handled the only narration that can play is the reply to that event: when
\* no call is under way, a chunk is delivered only by the worker of the latest
\* speak(), and by none after a stop_audio() that no speak() followed.
C35_OnlyTheReplyPlays ==
    [][caller.pc = "idle" =>
          \A t \in Utter :
              delivered'[t] # delivered[t] =>
                  (t = _current_playback_thread /\ ~_stop_event)]_vars

(***************************************************************************)
(* QueuedTTS (agent/tts.py): speak() and clear_queue() of one calling      *)
(* thread, and the threads of _process_queue.  A `with self.lock` block is *)
(* one step: the lock is never held across a blocking call and never       *)
(* nested, so a block only ever waits for another block to end.            *)
(***************************************************************************)

\* the text of the k-th speak() call when it is not blank: k words
QueueText(k) == [i \in 1..k |-> "w"]

Blank == << " " >>

\* everything but the QueuedTTS is left alone
QueueFrame == UNCHANGED << ttsVars, agentVars, wsVars, storeVars, peerVars, feedbackVars, twinVars >>

\* speak(text), lines 100-105: a blank text returns, any other is appended under
\* the lock
QueueSpeak(text) ==
    /\ queue_caller = "idle"
    /\ queue_calls < MaxSpeak
    /\ queue_calls' = queue_calls + 1
    /\ passed' = Append(passed, text)
    /\ IF strip(text) = << >>
       THEN UNCHANGED << speech_queue, queue_caller >>
       ELSE /\ speech_queue' = Append(speech_queue, text)
            /\ queue_caller' = "check"
    /\ UNCHANGED << is_processing, workers, spoken, cleared >>
    /\ QueueFrame

\* speak(text), lines 108-109, and _start_processing: the flag is read outside
\* the lock and a thread is started when it is not set
QueueSpeakCheck ==
    /\ queue_caller = "check"
    /\ queue_caller' = "idle"
    /\ workers' = IF ~is_processing
                  THEN [workers EXCEPT ![queue_calls] = [pc |-> "start", text |-> << >>]]
                  ELSE workers
    /\ UNCHANGED << speech_queue, is_processing, queue_calls, passed, spoken, cleared >>
    /\ QueueFrame

\* clear_queue()
clear_queue ==
    /\ queue_caller = "idle"
    /\ speech_queue' = << >>
    /\ cleared' = cleared \cup { speech_queue[i] : i \in 1..Len(speech_queue) }
    /\ UNCHANGED << is_processing, workers, queue_caller, queue_calls, passed, spoken >>
    /\ QueueFrame

\* _process_queue, line 118: the first statement of the new thread
ProcessStart(w) ==
    /\ workers[w].pc = "start"
    /\ is_processing' = TRUE
    /\ workers' = [workers EXCEPT ![w].pc = "loop"]
    /\ UNCHANGED << speech_queue, queue_caller, queue_calls, passed, spoken, cleared >>
    /\ QueueFrame

\* _process_queue, lines 121-126: under the lock, leave on an empty queue or
\* pop its head
ProcessTake(w) ==
    /\ workers[w].pc = "loop"
    /\ IF speech_queue = << >>
       THEN /\ is_processing' = FALSE
            /\ workers' = [workers EXCEPT ![w].pc = "done"]
            /\ UNCHANGED speech_queue
       ELSE /\ workers' = [workers EXCEPT ![w] = [pc |-> "popped", text |-> Head(speech_queue)]]
            /\ speech_queue' = Tail(speech_queue)
            /\ UNCHANGED is_processing
    /\ UNCHANGED << queue_caller, queue_calls, passed, spoken, cleared >>
    /\ QueueFrame

\* SimpleTTS.speak(text) entered from line 129: the engine begins to say the
\* text, or an exception of the engine is printed and the call returns
SimpleSpeak(w, ok) ==
    /\ workers[w].pc = "popped"
    /\ IF ok
       THEN /\ spoken' = Append(spoken, workers[w].text)
            /\ workers' = [workers EXCEPT ![w].pc = "speaking"]
       ELSE /\ workers' = [workers EXCEPT ![w] = [pc |-> "loop", text |-> << >>]]
            /\ UNCHANGED spoken
    /\ UNCHANGED << speech_queue, is_processing, queue_caller, queue_calls, passed, cleared >>
    /\ QueueFrame

\* engine.runAndWait() returns and the thread goes round its loop
SimpleSpeakDone(w) ==
    /\ workers[w].pc = "speaking"
    /\ workers' = [workers EXCEPT ![w] = [pc |-> "loop", text |-> << >>]]
    /\ UNCHANGED << speech_queue, is_processing, queue_caller, queue_calls, passed,
                    spoken, cleared >>
    /\ QueueFrame

\* the steps of the threads of _process_queue
WorkerStep(w) ==
    \/ ProcessStart(w)
    \/ ProcessTake(w)
    \/ \E ok \in BOOLEAN : SimpleSpeak(w, ok)
    \/ SimpleSpeakDone(w)

NextQueue ==
    \/ QueueSpeak(QueueText(queue_calls + 1))
    \/ QueueSpeak(Blank)
    \/ QueueSpeakCheck
    \/ clear_queue
    \/ \E w \in QueueWorkers : ProcessStart(w)
    \/ \E w \in QueueWorkers : ProcessTake(w)
    \/ \E w \in QueueWorkers, ok \in BOOLEAN : SimpleSpeak(w, ok)
    \/ \E w \in QueueWorkers : SimpleSpeakDone(w)

SpecQueue == Init /\ [][NextQueue]_vars

\* a started thread and a caller inside speak() keep being scheduled
QueueFairness ==
    /\ WF_vars(QueueSpeakCheck)
    /\ \A w \in QueueWorkers : WF_vars(WorkerStep(w))

SpecQueueFair == SpecQueue /\ QueueFairness

(***************************************************************************)
(* Properties of two connections under one client id (SpecTwin).           *)
(***************************************************************************)

\* C36: the disconnect of one connection removes only its own registration:
\* while a connection's loop runs, its client id stays registered to its own
\* websocket and every message sent for it reaches it, also when another
\* connection with the same client id connects or disconnects.
C36_OwnRegistrationKept ==
    [][/\ ws_pc' # "closed" =>
             (ClientId \in active_connections' /\ registered_ws' = "w1")
       /\ \A cc \in InboundCodes :
             RecvPing(cc) => sent' = << Msg("pong", << >>, "") >>]_vars

(***************************************************************************)
(* Properties of the QueuedTTS (SpecQueue, SpecQueueFair).                 *)
(***************************************************************************)

\* the threads of _process_queue that were started and have not returned
AliveWorkers == { w \in QueueWorkers : workers[w].pc \notin {"none", "done"} }

SpeakingWorkers == { w \in QueueWorkers : workers[w].pc = "speaking" }

\* C37: under every interleaving of speak() calls and worker steps at most one
\* queue-processing thread is alive, so at most one queued text is being spoken
\* at any moment.
C37_SingleWorker ==
    /\ Cardinality(AliveWorkers) <= 1
    /\ Cardinality(SpeakingWorkers) <= 1

\* the place of a text among the texts given to speak()
PassedAt(text) == CHOOSE i \in 1..Len(passed) : passed[i] = text

\* the texts are said once each, and in the order of their speak() calls
SpokenInQueueOrder ==
    \A i, j \in 1..Len(spoken) :
        i < j => PassedAt(spoken[i]) < PassedAt(spoken[j])

\* a text waits in the queue, no thread of _process_queue is alive and no
\* speak() is about to start one
Stranded ==
    /\ speech_queue # << >>
    /\ AliveWorkers = {}
    /\ queue_caller = "idle"

\* the text was given to speak()
Passed(text) == \E i \in 1..Len(passed) : passed[i] = text

\* the engine began to say the text
Spoken(text) == \E i \in 1..Len(spoken) : spoken[i] = text

\* C38: every non-empty text passed to speak() and not removed by clear_queue()
\* is eventually spoken exactly once, texts are spoken in the order in which
\* they were queued, and no queued text is left waiting with no worker running.
\* (A text of nothing but whitespace is not queued by speak() and is left out.)
C38_QueuedTextsSpokenInOrder ==
    /\ [](SpokenInQueueOrder /\ ~Stranded)
    /\ \A text \in { QueueText(k) : k \in 1..MaxSpeak } :
          Passed(text) ~> (Spoken(text) \/ text \in cleared)

====
